---- MODULE Spec2Model ----
(***************************************************************************)
(* Model of generate_associations.py (PP-FedSLAM): the record parser       *)
(* read_file_list, the nearest-timestamp matcher associate, the output     *)
(* writer and the run orchestration of generate_associations / __main__.   *)
(*                                                                         *)
(* Text is modelled as sequences of one-character strings.  Timestamps are *)
(* Python floats (IEEE-754 binary64): float(token) is the correctly        *)
(* rounded conversion of the decimal token, abs(t1 - t2) is the correctly  *)
(* rounded difference, and "%.6f" is the correctly rounded decimal         *)
(* rendering.  A finite float is kept as a sign and an exact magnitude:    *)
(* a little-endian sequence of NumLimbs limbs, of which the first          *)
(* FracLimbs are the fraction in base 2^LimbBits and the last is the       *)
(* integer part.  Every binary64 value that is zero or lies in             *)
(* [2^-27, 2^30) is exactly such a magnitude, and so is every difference   *)
(* of two of them; the inputs of the model (decimal tokens with at most    *)
(* six fractional digits and an integer part below 2^30) stay inside that  *)
(* range.                                                                  *)
(***************************************************************************)
EXTENDS Integers, Sequences, FiniteSets, TLC

(***************************************************************************)
(* Python float: representation                                            *)
(***************************************************************************)
MantBits == 53
LimbBits == 10
FracLimbs == 8
NumLimbs == 9

Base == 2^LimbBits
FracBits == FracLimbs * LimbBits
Limbs == 1..NumLimbs
BigZero == [k \in Limbs |-> 0]

\* Three-way comparison of magnitudes: the most significant differing limb decides.
BigCmp(X, Y) ==
    LET D == {k \in Limbs : X[k] # Y[k]}
    IN  IF D = {} THEN 0
        ELSE LET t == CHOOSE k \in D : \A j \in D : j <= k
             IN  IF X[t] < Y[t] THEN -1 ELSE 1

\* X + Y: the carry into limb k comes from the nearest lower limb that
\* generates one, through limbs that propagate it.
BigAdd(X, Y) ==
    LET carry(k) == IF \E j \in 1..(k - 1) :
                          /\ X[j] + Y[j] >= Base
                          /\ \A i \in (j + 1)..(k - 1) : X[i] + Y[i] = Base - 1
                    THEN 1 ELSE 0
    IN  [k \in Limbs |->
            IF k = NumLimbs THEN X[k] + Y[k] + carry(k)
            ELSE (X[k] + Y[k] + carry(k)) % Base]

\* X - Y for X >= Y.
BigSub(X, Y) ==
    LET borrow(k) == IF \E j \in 1..(k - 1) :
                           /\ X[j] < Y[j]
                           /\ \A i \in (j + 1)..(k - 1) : X[i] = Y[i]
                     THEN 1 ELSE 0
    IN  [k \in Limbs |->
            IF k = NumLimbs THEN X[k] - Y[k] - borrow(k)
            ELSE (X[k] - Y[k] - borrow(k) + Base) % Base]

\* Number of significant bits of a limb and of a magnitude.
RECURSIVE LimbLen(_)
LimbLen(v) == IF v = 0 THEN 0 ELSE 1 + LimbLen(v \div 2)

BitLen(X) ==
    LET N == {k \in Limbs : X[k] # 0}
    IN  IF N = {} THEN 0
        ELSE LET t == CHOOSE k \in N : \A j \in N : j <= k
             IN  (t - 1) * LimbBits + LimbLen(X[t])

\* The limb that holds bit p, and the place of bit p in it.
LimbOf(p) == IF p >= FracBits THEN NumLimbs ELSE (p \div LimbBits) + 1
PlaceOf(p) == p - (LimbOf(p) - 1) * LimbBits

BitAt(X, p) == (X[LimbOf(p)] \div 2^PlaceOf(p)) % 2

\* Is any bit below position p set?
LowBitsSet(X, p) ==
    \/ \E k \in 1..(LimbOf(p) - 1) : X[k] # 0
    \/ X[LimbOf(p)] % 2^PlaceOf(p) # 0

ClearLow(X, s) ==
    [k \in Limbs |->
        IF k < LimbOf(s) THEN 0
        ELSE IF k = LimbOf(s) THEN X[k] - (X[k] % 2^PlaceOf(s))
        ELSE X[k]]

OneBit(s) == [k \in Limbs |-> IF k = LimbOf(s) THEN 2^PlaceOf(s) ELSE 0]

\* Round-to-nearest, ties-to-even, to MantBits significant bits, of the exact
\* value X + (a positive fraction of one unit when sticky).
RoundSig(X, sticky) ==
    LET s == BitLen(X) - MantBits
    IN  IF s <= 0 THEN X
        ELSE LET guard == BitAt(X, s - 1) = 1
                 rest  == sticky \/ LowBitsSet(X, s - 1)
                 odd   == BitAt(X, s) = 1
                 trunc == ClearLow(X, s)
             IN  IF guard /\ (rest \/ odd) THEN BigAdd(trunc, OneBit(s)) ELSE trunc

(***************************************************************************)
(* Python float: values and operations                                     *)
(***************************************************************************)
Fin(neg, mag) == [inf |-> FALSE, neg |-> neg, mag |-> mag]
\* Mutant: min_diff starts at 0.0 instead of float('inf').
MinDiffZero == [inf |-> FALSE, neg |-> FALSE, mag |-> BigZero]

\* float('inf')
Inf == [inf |-> TRUE, neg |-> FALSE, mag |-> BigZero]

\* a < b on floats.
FLess(a, b) ==
    IF a.inf THEN (a.neg /\ ~(b.inf /\ b.neg))
    ELSE IF b.inf THEN ~b.neg
    ELSE IF a.neg /\ b.neg THEN BigCmp(b.mag, a.mag) < 0
    ELSE IF a.neg THEN (a.mag # BigZero \/ b.mag # BigZero)
    ELSE IF b.neg THEN FALSE
    ELSE BigCmp(a.mag, b.mag) < 0

\* The exact magnitude of the real difference of two finite floats.
ExactAbsDiff(a, b) ==
    IF a.neg = b.neg
    THEN IF BigCmp(a.mag, b.mag) >= 0 THEN BigSub(a.mag, b.mag) ELSE BigSub(b.mag, a.mag)
    ELSE BigAdd(a.mag, b.mag)

(***************************************************************************)
(* Text: str.strip, str.split, str.startswith, str.join                    *)
(***************************************************************************)
Digits == <<"0", "1", "2", "3", "4", "5", "6", "7", "8", "9">>
IsDigit(c) == \E d \in 1..10 : Digits[d] = c
DigitVal(c) == (CHOOSE d \in 1..10 : Digits[d] = c) - 1

Whitespace == {" ", "\t", "\n", "\r"}
IsSpace(c) == c \in Whitespace

RECURSIVE lstrip(_)
lstrip(s) == IF s # <<>> /\ IsSpace(Head(s)) THEN lstrip(Tail(s)) ELSE s

RECURSIVE rstrip(_)
rstrip(s) ==
    IF s # <<>> /\ IsSpace(s[Len(s)]) THEN rstrip(SubSeq(s, 1, Len(s) - 1)) ELSE s

strip(s) == rstrip(lstrip(s))

startswith(s, c) == s # <<>> /\ Head(s) = c

\* Length of the leading run of non-whitespace characters.
RECURSIVE TokenLen(_)
TokenLen(s) == IF s = <<>> \/ IsSpace(Head(s)) THEN 0 ELSE 1 + TokenLen(Tail(s))

\* s.split(): the maximal runs of non-whitespace characters, in order.
RECURSIVE split(_)
split(s) ==
    LET t == lstrip(s)
    IN  IF t = <<>> THEN <<>>
        ELSE <<SubSeq(t, 1, TokenLen(t))>> \o split(SubSeq(t, TokenLen(t) + 1, Len(t)))

\* sep.join(parts)
RECURSIVE join(_, _)
join(sep, parts) ==
    IF parts = <<>> THEN <<>>
    ELSE IF Len(parts) = 1 THEN parts[1]
    ELSE parts[1] \o sep \o join(sep, Tail(parts))

(***************************************************************************)
(* float(token) and "%.6f" % x                                             *)
(***************************************************************************)
Unsigned(tok) == IF tok # <<>> /\ Head(tok) \in {"+", "-"} THEN Tail(tok) ELSE tok

\* Does float(tok) succeed?  Tokens are made of digits, ".", signs and
\* characters that occur in no float literal; a token with any other
\* character raises ValueError.
FloatOk(tok) ==
    LET body == Unsigned(tok)
    IN  /\ \A k \in 1..Len(body) : IsDigit(body[k]) \/ body[k] = "."
        /\ Cardinality({k \in 1..Len(body) : body[k] = "."}) <= 1
        /\ \E k \in 1..Len(body) : IsDigit(body[k])

\* The number a string of digits denotes.
RECURSIVE DigitsValue(_)
DigitsValue(ds) ==
    IF ds = <<>> THEN 0
    ELSE 10 * DigitsValue(SubSeq(ds, 1, Len(ds) - 1)) + DigitVal(ds[Len(ds)])

\* Where the "." of body is; Len(body) + 1 when it has none.
PointAt(body) ==
    IF \E k \in 1..Len(body) : body[k] = "."
    THEN CHOOSE k \in 1..Len(body) : body[k] = "."
    ELSE Len(body) + 1

\* One step of the long division of r / den (0 <= r < den) in base
\* 2^LimbBits: the next limb of the fraction, and what is left.
FracStep(r, den) == [q |-> (r * Base) \div den, r |-> (r * Base) % den]

\* The FracLimbs limbs of the fraction r / den, least significant first, and
\* what is left after them.
FracExpand(r, den) ==
    LET s1 == FracStep(r, den)
        s2 == FracStep(s1.r, den)
        s3 == FracStep(s2.r, den)
        s4 == FracStep(s3.r, den)
        s5 == FracStep(s4.r, den)
        s6 == FracStep(s5.r, den)
        s7 == FracStep(s6.r, den)
        s8 == FracStep(s7.r, den)
    IN  [limbs |-> <<s8.q, s7.q, s6.q, s5.q, s4.q, s3.q, s2.q, s1.q>>, r |-> s8.r]

\* float(tok) for a token with FloatOk(tok): the decimal value, correctly rounded.
float(tok) ==
    LET body == Unsigned(tok)
        p    == PointAt(body)
        ip   == DigitsValue(SubSeq(body, 1, p - 1))
        fd   == SubSeq(body, p + 1, Len(body))
        fx   == FracExpand(DigitsValue(fd), 10^Len(fd))
    IN  Fin(tok # <<>> /\ Head(tok) = "-", RoundSig(Append(fx.limbs, ip), fx.r # 0))

\* str(n) for an integer n >= 0.
RECURSIVE IntStr(_)
IntStr(n) == IF n < 10 THEN <<Digits[n + 1]>> ELSE Append(IntStr(n \div 10), Digits[(n % 10) + 1])

RECURSIVE PadLeft(_, _)
PadLeft(ds, n) == IF Len(ds) >= n THEN ds ELSE PadLeft(<<"0">> \o ds, n)

\* The fraction limbs F times m: [limbs |-> the fraction of the product,
\* carry |-> its integer part].
RECURSIVE FracTimes(_, _, _, _)
FracTimes(F, m, carry, k) ==
    IF k > FracLimbs THEN [limbs |-> <<>>, carry |-> carry]
    ELSE LET v    == F[k] * m + carry
             rest == FracTimes(F, m, v \div Base, k + 1)
         IN  [limbs |-> <<v % Base>> \o rest.limbs, carry |-> rest.carry]

\* "%.6f" % x for a finite float: x * 10^6 rounded to the nearest integer
\* (ties to even), written with six digits after the point.
FormatF6(x) ==
    LET prod == FracTimes(x.mag, 10^6, 0, 1)
        c    == BigCmp(Append(prod.limbs, 0), OneBit(FracBits - 1))
        up   == c > 0 \/ (c = 0 /\ prod.carry % 2 = 1)
        u    == IF up THEN prod.carry + 1 ELSE prod.carry
        ip   == IF u = 10^6 THEN x.mag[NumLimbs] + 1 ELSE x.mag[NumLimbs]
    IN  (IF x.neg THEN <<"-">> ELSE <<>>)
            \o IntStr(ip) \o <<".">> \o PadLeft(IntStr(u % 10^6), 6)

\* Mutant: the difference in whole microseconds, as decimal arithmetic on
\* the printed timestamps would give it: float("%.6f" % abs(a - b)).
FAbsDiffMicro(a, b) == float(FormatF6(Fin(FALSE, RoundSig(ExactAbsDiff(a, b), FALSE))))

\* abs(a - b) on finite floats: the exact difference, rounded.
FAbsDiff(a, b) == Fin(FALSE, RoundSig(ExactAbsDiff(a, b), FALSE))

(***************************************************************************)
(* Module constants                                                        *)
(***************************************************************************)
BASE_DATA_ROOT == "tum_data/rgbd_dataset_freiburg1_xyz"
OUTPUT_FILENAME == "associations.txt"
MAX_DIFFERENCE == float(<<"0", ".", "0", "2">>)

\* os.path.join(data_dir, name)
PathJoin(dir, name) == dir \o "/" \o name

(***************************************************************************)
(* read_file_list                                                          *)
(***************************************************************************)
\* Mutant: the payload is the token after the timestamp alone.
ContentSecondToken(parts) == IF Len(parts) > 1 THEN parts[2] ELSE <<>>

\* The payload of a record: the tokens after the timestamp.
Content(parts) == join(<<" ">>, Tail(parts))

\* One iteration of the loop over the lines of the file.
ReadLine(file_list, line) ==
    IF strip(line) # <<>> /\ ~startswith(line, "#")
    THEN LET parts == split(strip(line))
         IN  IF FloatOk(parts[1])
             THEN Append(file_list, [timestamp |-> float(parts[1]), content |-> Content(parts)])
             ELSE file_list
    ELSE file_list

\* The list read_file_list returns for a file that exists.
RECURSIVE read_file_list(_)
read_file_list(lines) ==
    IF lines = <<>> THEN <<>>
    ELSE ReadLine(read_file_list(SubSeq(lines, 1, Len(lines) - 1)), lines[Len(lines)])

(***************************************************************************)
(* associate                                                               *)
(***************************************************************************)
\* Mutant: diff <= min_diff, so that the last of several equal candidates wins.
CloserOrEqual(diff, min_diff) == ~FLess(min_diff, diff)

\* diff < min_diff: a candidate replaces the best match so far.
Closer(diff, min_diff) == FLess(diff, min_diff)

\* Mutant: min_diff <= max_difference, so that the boundary is accepted.
AcceptOrEqual(min_diff, max_difference) == ~FLess(max_difference, min_diff)

\* min_diff < max_difference: the best match is accepted.
Accept(min_diff, max_difference) == FLess(min_diff, max_difference)

\* The inner loop from index j (of Python, from 0) on, with the best match so far.
RECURSIVE Scan(_, _, _, _, _)
Scan(t1, second_list, j, min_diff, best_match_index) ==
    IF j >= Len(second_list)
    THEN [min_diff |-> min_diff, best_match_index |-> best_match_index]
    ELSE LET diff == FAbsDiff(t1, second_list[j + 1].timestamp)
         IN  IF Closer(diff, min_diff)
             THEN Scan(t1, second_list, j + 1, diff, j)
             ELSE Scan(t1, second_list, j + 1, min_diff, best_match_index)

\* Mutant: the associations are collected in reverse.
RECURSIVE AssociateFromReversed(_, _, _, _)
AssociateFromReversed(first_list, second_list, max_difference, i) ==
    IF i >= Len(first_list) THEN <<>>
    ELSE LET best == Scan(first_list[i + 1].timestamp, second_list, 0, Inf, -1)
         IN  AssociateFromReversed(first_list, second_list, max_difference, i + 1)
                 \o (IF Accept(best.min_diff, max_difference)
                     THEN <<<<i, best.best_match_index>>>>
                     ELSE <<>>)

\* Mutant: min_diff and best_match_index are set before the outer loop and not
\* again for each record, so a record inherits the best match of those before.
RECURSIVE CarryFrom(_, _, _, _, _, _)
CarryFrom(first_list, second_list, max_difference, i, min_diff, best_match_index) ==
    IF i >= Len(first_list) THEN <<>>
    ELSE LET best == Scan(first_list[i + 1].timestamp, second_list, 0, min_diff,
                          best_match_index)
         IN  (IF Accept(best.min_diff, max_difference)
              THEN <<<<i, best.best_match_index>>>>
              ELSE <<>>)
                 \o CarryFrom(first_list, second_list, max_difference, i + 1,
                              best.min_diff, best.best_match_index)

AssociateFromCarry(first_list, second_list, max_difference, i) ==
    CarryFrom(first_list, second_list, max_difference, i, Inf, -1)

\* The outer loop from index i (of Python, from 0) on.
RECURSIVE AssociateFrom(_, _, _, _)
AssociateFrom(first_list, second_list, max_difference, i) ==
    IF i >= Len(first_list) THEN <<>>
    ELSE LET best == Scan(first_list[i + 1].timestamp, second_list, 0, Inf, -1)
         IN  (IF Accept(best.min_diff, max_difference)
              THEN <<<<i, best.best_match_index>>>>
              ELSE <<>>)
                 \o AssociateFrom(first_list, second_list, max_difference, i + 1)

\* Mutant: a two-pointer sweep that trusts both lists to be sorted: the scan
\* for a record starts where the scan for the record before it ended.
RECURSIVE SweepFrom(_, _, _, _, _)
SweepFrom(first_list, second_list, max_difference, i, start) ==
    IF i >= Len(first_list) THEN <<>>
    ELSE LET best == Scan(first_list[i + 1].timestamp, second_list, start, Inf, -1)
         IN  (IF Accept(best.min_diff, max_difference)
              THEN <<<<i, best.best_match_index>>>>
              ELSE <<>>)
                 \o SweepFrom(first_list, second_list, max_difference, i + 1,
                              IF best.best_match_index >= 0 THEN best.best_match_index
                              ELSE start)

associateSweep(first_list, second_list, max_difference) ==
    SweepFrom(first_list, second_list, max_difference, 0, 0)

\* Mutant: a matched record of the second list is consumed: later records of
\* the first list may not match it.
RECURSIVE ScanUnused(_, _, _, _, _, _)
ScanUnused(t1, second_list, used, j, min_diff, best_match_index) ==
    IF j >= Len(second_list)
    THEN [min_diff |-> min_diff, best_match_index |-> best_match_index]
    ELSE LET diff == FAbsDiff(t1, second_list[j + 1].timestamp)
         IN  IF j \notin used /\ Closer(diff, min_diff)
             THEN ScanUnused(t1, second_list, used, j + 1, diff, j)
             ELSE ScanUnused(t1, second_list, used, j + 1, min_diff, best_match_index)

RECURSIVE ExclusiveFrom(_, _, _, _, _)
ExclusiveFrom(first_list, second_list, max_difference, i, used) ==
    IF i >= Len(first_list) THEN <<>>
    ELSE LET best == ScanUnused(first_list[i + 1].timestamp, second_list, used, 0, Inf, -1)
         IN  IF Accept(best.min_diff, max_difference)
             THEN <<<<i, best.best_match_index>>>>
                      \o ExclusiveFrom(first_list, second_list, max_difference, i + 1,
                                       used \cup {best.best_match_index})
             ELSE ExclusiveFrom(first_list, second_list, max_difference, i + 1, used)

associateExclusive(first_list, second_list, max_difference) ==
    ExclusiveFrom(first_list, second_list, max_difference, 0, {})

associate(first_list, second_list, max_difference) ==
    AssociateFrom(first_list, second_list, max_difference, 0)

(***************************************************************************)
(* The output writer                                                       *)
(***************************************************************************)
\* f"{ts_rgb:.6f} {fn_rgb} {ts_depth:.6f} {fn_depth}\n"
OutputLine(rgb, depth) ==
    FormatF6(rgb.timestamp) \o <<" ">> \o rgb.content \o <<" ">>
        \o FormatF6(depth.timestamp) \o <<" ">> \o depth.content \o <<"\n">>

\* Mutant: open(path, 'a'): what the file held stays.
OpenForAppend(file) == [exists |-> TRUE, lines |-> file.lines]

\* open(path, 'w'): the file exists and is empty.
OpenForWrite(file) == [exists |-> TRUE, lines |-> <<>>]

(***************************************************************************)
(* Diagnostics                                                             *)
(***************************************************************************)
MsgNoDir == "Error: Data directory not found at " \o BASE_DATA_ROOT
               \o ". Ensure your extraction was successful."
MsgNotFound(filename) == "Error: Input file not found: " \o filename
MsgLoading(data_dir) == "--- Loading data from: " \o data_dir \o " ---"
MsgEmpty == "Error: RGB or Depth list is empty. Cannot associate."
MsgCreated(n, output_path) ==
    "Successfully created " \o OUTPUT_FILENAME \o " with " \o ToString(n)
        \o " associations at " \o output_path \o "."
MsgComplete == "\nAssociation setup complete. You can now run the VO experiment."

(***************************************************************************)
(* State                                                                   *)
(***************************************************************************)
VARIABLES
    pc,              \* where the run is
    dir_exists,      \* os.path.exists(BASE_DATA_ROOT)
    rgb_txt,         \* the file rgb.txt: [exists, lines]
    depth_txt,       \* the file depth.txt
    out_txt,         \* the file associations.txt
    out_before,      \* associations.txt as the run found it
    rgb_list,        \* generate_associations: rgb_list
    depth_list,      \* generate_associations: depth_list
    associations,    \* the list associate returned
    written,         \* associations written so far
    stdout,          \* the lines printed
    retval,          \* what generate_associations returned
    exit_status,     \* the exit status of the process, -1 while it runs
    calls,           \* associate and open, as they are called
    first_list,      \* associate called on its own: first_list
    second_list,     \* associate called on its own: second_list
    max_difference,  \* associate called on its own: max_difference
    returned         \* associate called on its own: what each call returned

vars == <<pc, dir_exists, rgb_txt, depth_txt, out_txt, out_before, rgb_list, depth_list,
          associations, written, stdout, retval, exit_status, calls,
          first_list, second_list, max_difference, returned>>

fsvars == <<dir_exists, rgb_txt, depth_txt, out_before>>
argvars == <<first_list, second_list, max_difference>>

(***************************************************************************)
(* Inputs                                                                  *)
(***************************************************************************)
MaxLines == 2
MaxLineLen == 3
MaxParseLines == 1
MaxFirst == 2
MaxSecond == 2
MaxCalls == 2

SeqUpTo(S, n) == UNION {[1..k -> S] : k \in 0..n}

Missing == [exists |-> FALSE, lines |-> <<>>]
File(ls) == [exists |-> TRUE, lines |-> ls]

\* Lines of rgb.txt and of depth.txt in a run.
RgbLinePool == {<<"1", "0", "0", "0", ".", "0", " ", "r", "g", "b", "1", ".", "p", "n", "g", "\n">>,
                <<"1", "0", "0", "0", ".", "5", " ", "r", "g", "b", "2", ".", "p", "n", "g", "\n">>,
                <<"#", " ", "c", "o", "m", "m", "e", "n", "t", "\n">>}
DepthLinePool == {<<"9", "9", "9", ".", "9", "9", " ", "d", "1", ".", "p", "n", "g", "\n">>,
                  <<"1", "0", "0", "0", ".", "5", "2", " ", "d", "2", ".", "p", "n", "g", "\n">>,
                  <<"b", "a", "d", "l", "i", "n", "e", "\n">>}
StaleOutput == <<<<"0", ".", "0", "0", "0", "0", "0", "0", " ", "o", "l", "d", ".", "p", "n", "g", " ", "0", ".", "0", "0", "0", "0", "0", "0", " ", "o", "l", "d", ".", "p", "n", "g", "\n">>>>

\* Lines for the parser alone: every line of at most MaxLineLen characters
\* over ParseChars before its newline, and some longer ones.
ParseChars == {" ", "#", "1", "."}
LongLines == {<<"1", ".", "5", " ", "a", " ", "b", "\n">>,
              <<" ", "1", ".", "5", " ", " ", "a", " ", "\t", " ", "b", " ", "\n">>,
              <<" ", " ", "#", " ", "1", ".", "5", " ", "a", "\n">>,
              <<"-", "1", ".", "5", "\n">>}
ParseLines == {l \o <<"\n">> : l \in SeqUpTo(ParseChars, MaxLineLen)} \cup LongLines
ExampleFile == <<<<"#", " ", "c", "o", "m", "m", "e", "n", "t", "\n">>,
                 <<"\n">>,
                 <<"1", ".", "2", "3", "4", " ", "f", "o", "o", ".", "p", "n", "g", "\n">>,
                 <<"b", "a", "d", "l", "i", "n", "e", "\n">>,
                 <<"5", ".", "6", "7", "8", " ", "b", "a", "r", ".", "p", "n", "g", "\n">>>>

\* Arguments for associate alone.
FirstTokens == {<<"1", ".", "0">>, <<"1", ".", "5">>}
SecondTokens == {<<"0", ".", "9", "5">>, <<"1", ".", "0">>, <<"1", ".", "0", "2">>, <<"1", ".", "0", "5">>}
ToleranceTokens == {<<"0">>, <<"0", ".", "0", "2">>, <<"0", ".", "0", "2", "1">>, <<"0", ".", "0", "6">>, <<"0", ".", "5">>, <<"-", "0", ".", "0", "2">>}
First(t) == [timestamp |-> float(t), content |-> <<"a">>]
Second(t) == [timestamp |-> float(t), content |-> <<"b">>]
FirstRecords == {First(t) : t \in FirstTokens}
SecondRecords == {Second(t) : t \in SecondTokens}
Tolerances == {float(t) : t \in ToleranceTokens} \cup {Inf}

(***************************************************************************)
(* A run of the script                                                     *)
(***************************************************************************)
Init ==
    /\ pc = "main"
    /\ dir_exists \in BOOLEAN
    /\ rgb_txt \in IF dir_exists
                   THEN {Missing} \cup {File(ls) : ls \in SeqUpTo(RgbLinePool, MaxLines)}
                   ELSE {Missing}
    /\ depth_txt \in IF dir_exists
                     THEN {Missing} \cup {File(ls) : ls \in SeqUpTo(DepthLinePool, MaxLines)}
                     ELSE {Missing}
    /\ out_txt \in IF dir_exists THEN {Missing, File(StaleOutput)} ELSE {Missing}
    /\ out_before = out_txt
    /\ rgb_list = <<>>
    /\ depth_list = <<>>
    /\ associations = <<>>
    /\ written = 0
    /\ stdout = <<>>
    /\ retval = "None"
    /\ exit_status = -1
    /\ calls = <<>>
    /\ first_list = <<>>
    /\ second_list = <<>>
    /\ max_difference = MAX_DIFFERENCE
    /\ returned = <<>>

\* __main__: the data directory is checked, generate_associations is entered.
Main ==
    /\ pc = "main"
    /\ IF dir_exists
       THEN /\ stdout' = Append(stdout, MsgLoading(BASE_DATA_ROOT))
            /\ pc' = "read_rgb"
            /\ UNCHANGED exit_status
       ELSE /\ stdout' = Append(stdout, MsgNoDir)
            /\ exit_status' = 1
            /\ pc' = "exited"
    /\ UNCHANGED <<fsvars, argvars, returned, out_txt, rgb_list, depth_list, associations, written,
                   retval, calls>>

\* rgb_list = read_file_list(rgb_file)
ReadRgb ==
    /\ pc = "read_rgb"
    /\ IF rgb_txt.exists
       THEN /\ rgb_list' = read_file_list(rgb_txt.lines)
            /\ pc' = "read_depth"
            /\ UNCHANGED <<stdout, exit_status>>
       ELSE /\ stdout' = Append(stdout, MsgNotFound(PathJoin(BASE_DATA_ROOT, "rgb.txt")))
            /\ exit_status' = 1
            /\ pc' = "exited"
            /\ UNCHANGED rgb_list
    /\ UNCHANGED <<fsvars, argvars, returned, out_txt, depth_list, associations, written, retval, calls>>

\* Mutant: the handler of FileNotFoundError calls sys.exit() without a status.
ReadDepthExitZero ==
    /\ pc = "read_depth"
    /\ IF depth_txt.exists
       THEN /\ depth_list' = read_file_list(depth_txt.lines)
            /\ pc' = "guard"
            /\ UNCHANGED <<stdout, exit_status>>
       ELSE /\ stdout' = Append(stdout, MsgNotFound(PathJoin(BASE_DATA_ROOT, "depth.txt")))
            /\ exit_status' = 0
            /\ pc' = "exited"
            /\ UNCHANGED depth_list
    /\ UNCHANGED <<fsvars, argvars, returned, out_txt, rgb_list, associations, written, retval, calls>>

\* depth_list = read_file_list(depth_file)
ReadDepth ==
    /\ pc = "read_depth"
    /\ IF depth_txt.exists
       THEN /\ depth_list' = read_file_list(depth_txt.lines)
            /\ pc' = "guard"
            /\ UNCHANGED <<stdout, exit_status>>
       ELSE /\ stdout' = Append(stdout, MsgNotFound(PathJoin(BASE_DATA_ROOT, "depth.txt")))
            /\ exit_status' = 1
            /\ pc' = "exited"
            /\ UNCHANGED depth_list
    /\ UNCHANGED <<fsvars, argvars, returned, out_txt, rgb_list, associations, written, retval, calls>>

\* Mutant: not rgb_list and not depth_list
ListsBothEmpty(rgb, depth) == rgb = <<>> /\ depth = <<>>

\* not rgb_list or not depth_list
ListsEmpty(rgb, depth) == rgb = <<>> \/ depth = <<>>

Guard ==
    /\ pc = "guard"
    /\ IF ListsEmpty(rgb_list, depth_list)
       THEN /\ stdout' = Append(stdout, MsgEmpty)
            /\ retval' = "False"
            /\ pc' = "main_return"
       ELSE /\ pc' = "associate"
            /\ UNCHANGED <<stdout, retval>>
    /\ UNCHANGED <<fsvars, argvars, returned, out_txt, rgb_list, depth_list, associations, written,
                   exit_status, calls>>

\* associations = associate(rgb_list, depth_list, max_difference=MAX_DIFFERENCE)
Associate ==
    /\ pc = "associate"
    /\ associations' = associate(rgb_list, depth_list, MAX_DIFFERENCE)
    /\ calls' = Append(calls, "associate")
    /\ pc' = "open"
    /\ UNCHANGED <<fsvars, argvars, returned, out_txt, rgb_list, depth_list, written, stdout, retval,
                   exit_status>>

\* with open(output_path, 'w') as f
Open ==
    /\ pc = "open"
    /\ out_txt' = OpenForWrite(out_txt)
    /\ written' = 0
    /\ calls' = Append(calls, "open")
    /\ pc' = "write"
    /\ UNCHANGED <<fsvars, argvars, returned, rgb_list, depth_list, associations, stdout, retval,
                   exit_status>>

\* One iteration of: for i, j in associations: f.write(...)
WriteLine ==
    /\ pc = "write"
    /\ written < Len(associations)
    /\ LET i == associations[written + 1][1]
           j == associations[written + 1][2]
       IN  out_txt' = [out_txt EXCEPT
                          !.lines = Append(@, OutputLine(rgb_list[i + 1], depth_list[j + 1]))]
    /\ written' = written + 1
    /\ UNCHANGED <<fsvars, argvars, returned, pc, rgb_list, depth_list, associations, stdout, retval,
                   exit_status, calls>>

\* The loop is over: the count is printed, generate_associations returns True.
Report ==
    /\ pc = "write"
    /\ written = Len(associations)
    /\ stdout' = Append(stdout, MsgCreated(Len(associations),
                                           PathJoin(BASE_DATA_ROOT, OUTPUT_FILENAME)))
    /\ retval' = "True"
    /\ pc' = "main_return"
    /\ UNCHANGED <<fsvars, argvars, returned, out_txt, rgb_list, depth_list, associations, written,
                   exit_status, calls>>

\* __main__ after generate_associations returned.
MainReturn ==
    /\ pc = "main_return"
    /\ IF retval = "True"
       THEN /\ stdout' = Append(stdout, MsgComplete)
            /\ exit_status' = 0
       ELSE /\ exit_status' = 1
            /\ UNCHANGED stdout
    /\ pc' = "exited"
    /\ UNCHANGED <<fsvars, argvars, returned, out_txt, rgb_list, depth_list, associations, written,
                   retval, calls>>

Next ==
    \/ Main
    \/ ReadRgb
    \/ ReadDepth
    \/ Guard
    \/ Associate
    \/ Open
    \/ WriteLine
    \/ Report
    \/ MainReturn

Spec == Init /\ [][Next]_vars

(***************************************************************************)
(* read_file_list on its own                                               *)
(***************************************************************************)
InitParse ==
    /\ pc = "read_rgb"
    /\ dir_exists = TRUE
    /\ rgb_txt \in {Missing} \cup {File(ls) : ls \in SeqUpTo(ParseLines, MaxParseLines)}
                    \cup {File(ExampleFile)}
    /\ depth_txt = Missing
    /\ out_txt = Missing
    /\ out_before = Missing
    /\ rgb_list = <<>>
    /\ depth_list = <<>>
    /\ associations = <<>>
    /\ written = 0
    /\ stdout = <<>>
    /\ retval = "None"
    /\ exit_status = -1
    /\ calls = <<>>
    /\ first_list = <<>>
    /\ second_list = <<>>
    /\ max_difference = MAX_DIFFERENCE
    /\ returned = <<>>

NextParse == ReadRgb

SpecParse == InitParse /\ [][NextParse]_vars

(***************************************************************************)
(* associate on its own                                                    *)
(***************************************************************************)
InitAssociate ==
    /\ pc = "call_associate"
    /\ first_list \in SeqUpTo(FirstRecords, MaxFirst)
    /\ second_list \in SeqUpTo(SecondRecords, MaxSecond)
    /\ max_difference \in Tolerances
    /\ returned = <<>>
    /\ dir_exists = TRUE
    /\ rgb_txt = Missing
    /\ depth_txt = Missing
    /\ out_txt = Missing
    /\ out_before = Missing
    /\ rgb_list = <<>>
    /\ depth_list = <<>>
    /\ associations = <<>>
    /\ written = 0
    /\ stdout = <<>>
    /\ retval = "None"
    /\ exit_status = -1
    /\ calls = <<>>

\* Mutant: the list of line 36 is made once, outside the function, and every
\* call appends to what the calls before it left there.
CallAssociateShared ==
    /\ pc = "call_associate"
    /\ associations' = associations \o associate(first_list, second_list, max_difference)
    /\ returned' = Append(returned, associations')
    /\ calls' = Append(calls, "associate")
    /\ pc' = "associate_returned"
    /\ UNCHANGED <<fsvars, argvars, out_txt, rgb_list, depth_list, written, stdout, retval,
                   exit_status>>

\* associations = associate(first_list, second_list, max_difference)
CallAssociate ==
    /\ pc = "call_associate"
    /\ associations' = associate(first_list, second_list, max_difference)
    /\ returned' = Append(returned, associations')
    /\ calls' = Append(calls, "associate")
    /\ pc' = "associate_returned"
    /\ UNCHANGED <<fsvars, argvars, out_txt, rgb_list, depth_list, written, stdout, retval,
                   exit_status>>

NextAssociate == CallAssociate

SpecAssociate == InitAssociate /\ [][NextAssociate]_vars

(***************************************************************************)
(* associate called again and again on the same arguments                  *)
(***************************************************************************)
\* The caller calls associate once more, with the lists and the tolerance it
\* passed before; the result of the call before is still in its hands.
CallAgain ==
    /\ pc = "associate_returned"
    /\ Len(returned) < MaxCalls
    /\ pc' = "call_associate"
    /\ UNCHANGED <<fsvars, argvars, returned, out_txt, rgb_list, depth_list, associations,
                   written, stdout, retval, exit_status, calls>>

NextRepeat == CallAssociate \/ CallAgain

SpecRepeat == InitAssociate /\ [][NextRepeat]_vars

(***************************************************************************)
(* Properties of associate                                                 *)
(***************************************************************************)
Returned == pc = "associate_returned"
Pairs == {associations[k] : k \in 1..Len(associations)}
FirstIdx == 0..(Len(first_list) - 1)
SecondIdx == 0..(Len(second_list) - 1)
ValidPair(p) == p[1] \in FirstIdx /\ p[2] \in SecondIdx

\* abs(t1 - t2) for record i of the first list and record j of the second.
Diff(i, j) == FAbsDiff(first_list[i + 1].timestamp, second_list[j + 1].timestamp)

\* The same difference before it is rounded.
ExactDiff(i, j) ==
    Fin(FALSE, ExactAbsDiff(first_list[i + 1].timestamp, second_list[j + 1].timestamp))

Tol(t) == float(t)

\* C1: every association (i, j) that associate returns has
\* |t1[i] - t2[j]| < maxDifference, strictly, for the difference as the floats
\* give it and for the exact difference of the two floats alike; a pair whose
\* difference equals maxDifference is never returned; first = [1.00],
\* second = [1.02] gives nothing for maxDifference = 0.02 and (0, 0) for 0.021.
C1_StrictTolerance ==
    Returned =>
        /\ \A p \in Pairs :
              /\ ValidPair(p)
              /\ FLess(Diff(p[1], p[2]), max_difference)
              /\ FLess(ExactDiff(p[1], p[2]), max_difference)
        /\ \A i \in FirstIdx : \A j \in SecondIdx :
              Diff(i, j) = max_difference => <<i, j>> \notin Pairs
        /\ (/\ first_list = <<First(<<"1", ".", "0">>)>>
            /\ second_list = <<Second(<<"1", ".", "0", "2">>)>>)
              => /\ max_difference = Tol(<<"0", ".", "0", "2">>) => associations = <<>>
                 /\ max_difference = Tol(<<"0", ".", "0", "2", "1">>) => associations = <<<<0, 0>>>>

\* Witness of C1: associate returned an association, and left out a record
\* whose only candidate is exactly maxDifference > 0 away.
C1_Witness ==
    /\ Returned
    /\ associations # <<>>
    /\ max_difference.mag # BigZero
    /\ \E i \in FirstIdx :
          /\ \A p \in Pairs : p[1] # i
          /\ \E j \in SecondIdx : Diff(i, j) = max_difference

InTolerance(i) == \E j \in SecondIdx : FLess(Diff(i, j), max_difference)
Matched(i) == \E p \in Pairs : p[1] = i

\* C2: associate is the exact brute-force nearest-neighbour match, sorted
\* lists or not: record i of the first list is in the result if and only if
\* some record of the second list is less than maxDifference away, and the j
\* it is paired with is at the least distance among ALL records of the second.
C2_BruteForceNearest ==
    Returned =>
        /\ \A i \in FirstIdx : Matched(i) <=> InTolerance(i)
        /\ \A p \in Pairs :
              /\ ValidPair(p)
              /\ \A k \in SecondIdx : ~FLess(Diff(p[1], k), Diff(p[1], p[2]))

\* Witness of C2: neither list is sorted, one record is matched with a record
\* that is not the first of the second list, another is left unmatched.
C2_Witness ==
    /\ Returned
    /\ \E a, b \in FirstIdx :
          a < b /\ FLess(first_list[b + 1].timestamp, first_list[a + 1].timestamp)
    /\ \E a, b \in SecondIdx :
          a < b /\ FLess(second_list[b + 1].timestamp, second_list[a + 1].timestamp)
    /\ \E p \in Pairs : p[2] > 0
    /\ \E i \in FirstIdx : ~Matched(i)

\* C3: of several records of the second list at the same least distance the
\* one of lowest index is chosen, whatever the order of the second list: every
\* record before the chosen one is strictly farther.  first = [1.0],
\* second = [0.95, 1.05] (or [1.05, 0.95]), maxDifference = 0.06 gives (0, 0).
C3_TieBreakLowest ==
    Returned =>
        /\ \A p \in Pairs :
              /\ ValidPair(p)
              /\ \A k \in 0..(p[2] - 1) : FLess(Diff(p[1], p[2]), Diff(p[1], k))
        /\ (/\ first_list = <<First(<<"1", ".", "0">>)>>
            /\ second_list \in {<<Second(<<"0", ".", "9", "5">>), Second(<<"1", ".", "0", "5">>)>>,
                                <<Second(<<"1", ".", "0", "5">>), Second(<<"0", ".", "9", "5">>)>>}
            /\ max_difference = Tol(<<"0", ".", "0", "6">>))
              => associations = <<<<0, 0>>>>

\* Witness of C3: a record is matched, and a later record of the second list,
\* with another timestamp, is at the same distance.
C3_Witness ==
    /\ Returned
    /\ \E p \in Pairs : \E k \in SecondIdx :
          /\ k > p[2]
          /\ Diff(p[1], k) = Diff(p[1], p[2])
          /\ second_list[k + 1].timestamp # second_list[p[2] + 1].timestamp

\* C4: the first components of the result are strictly increasing, so each
\* index of the first list occurs at most once and the result has at most
\* |first| entries, however the second list is ordered.
C4_OrderPreserved ==
    Returned =>
        /\ Len(associations) <= Len(first_list)
        /\ \A k \in 1..Len(associations) : associations[k][1] \in FirstIdx
        /\ \A a, b \in 1..Len(associations) :
              a < b => associations[a][1] < associations[b][1]

\* Witness of C4: two associations, the second list in descending order and
\* the matched indices of the second list descending too.
C4_Witness ==
    /\ Returned
    /\ Len(associations) = 2
    /\ associations[1][2] > associations[2][2]
    /\ FLess(second_list[associations[1][2] + 1].timestamp,
             second_list[associations[2][2] + 1].timestamp)

\* j is the nearest record of the second list to record i of the first: none
\* is nearer, and every one before it is farther.
Nearest(i, j) ==
    /\ \A k \in SecondIdx : ~FLess(Diff(i, k), Diff(i, j))
    /\ \A k \in 0..(j - 1) : FLess(Diff(i, j), Diff(i, k))

\* C10: a matched record of the second list is not consumed: when the same j
\* is the nearest candidate, within the tolerance, of i1 < i2, the result
\* holds both (i1, j) and (i2, j).
C10_NoExclusivity ==
    Returned =>
        \A i1, i2 \in FirstIdx : \A j \in SecondIdx :
            (/\ i1 < i2
             /\ Nearest(i1, j) /\ FLess(Diff(i1, j), max_difference)
             /\ Nearest(i2, j) /\ FLess(Diff(i2, j), max_difference))
                => <<i1, j>> \in Pairs /\ <<i2, j>> \in Pairs

\* Witness of C10: two associations share their j, although the second list
\* has another record.
C10_Witness ==
    /\ Returned
    /\ Len(second_list) > 1
    /\ \E p, q \in Pairs : p[1] < q[1] /\ p[2] = q[2]

(***************************************************************************)
(* Properties of read_file_list                                            *)
(***************************************************************************)
\* The tokens of a line, as the places <<first, last>> of its maximal runs of
\* non-whitespace characters.
TokenSpans(line) ==
    {sp \in (1..Len(line)) \X (1..Len(line)) :
        /\ sp[1] <= sp[2]
        /\ \A k \in sp[1]..sp[2] : ~IsSpace(line[k])
        /\ sp[1] = 1 \/ IsSpace(line[sp[1] - 1])
        /\ sp[2] = Len(line) \/ IsSpace(line[sp[2] + 1])}

NthToken(line, n) ==
    LET sp == CHOOSE t \in TokenSpans(line) :
                  Cardinality({u \in TokenSpans(line) : u[1] < t[1]}) = n - 1
    IN  SubSeq(line, sp[1], sp[2])

\* Tokens n, n + 1, ... of the line with one space between two of them.
RECURSIVE TokensFrom(_, _)
TokensFrom(line, n) ==
    IF n > Cardinality(TokenSpans(line)) THEN <<>>
    ELSE IF n = Cardinality(TokenSpans(line)) THEN NthToken(line, n)
    ELSE NthToken(line, n) \o <<" ">> \o TokensFrom(line, n + 1)

\* A line that gives a record: it is not blank, its first token does not
\* start a comment, and its first token is a number.
Kept(line) ==
    /\ TokenSpans(line) # {}
    /\ Head(NthToken(line, 1)) # "#"
    /\ FloatOk(NthToken(line, 1))

RECURSIVE ExpectedRecords(_)
ExpectedRecords(lines) ==
    IF lines = <<>> THEN <<>>
    ELSE (IF Kept(Head(lines))
          THEN <<[timestamp |-> float(NthToken(Head(lines), 1)),
                  content   |-> TokensFrom(Head(lines), 2)]>>
          ELSE <<>>)
             \o ExpectedRecords(Tail(lines))

\* C8: read_file_list returns, in file order, exactly one record for each line
\* that is not blank once trimmed, is no comment and begins with a number, its
\* payload the other tokens with one space between them; every other line is
\* dropped, and nothing is printed and the run goes on.  The file "# comment",
\* "", "1.234 foo.png", "badline", "5.678 bar.png" gives (1.234, "foo.png")
\* and (5.678, "bar.png").
C8_LenientParsing ==
    /\ rgb_txt.exists => pc # "exited"
    /\ pc = "read_depth" =>
          /\ rgb_list = ExpectedRecords(rgb_txt.lines)
          /\ stdout = <<>> /\ exit_status = -1
          /\ rgb_txt = File(ExampleFile) =>
                /\ rgb_list = <<[timestamp |-> float(<<"1", ".", "2", "3", "4">>), content |-> <<"f", "o", "o", ".", "p", "n", "g">>],
                                [timestamp |-> float(<<"5", ".", "6", "7", "8">>), content |-> <<"b", "a", "r", ".", "p", "n", "g">>]>>
                /\ FormatF6(rgb_list[1].timestamp) = <<"1", ".", "2", "3", "4", "0", "0", "0">>
                /\ FormatF6(rgb_list[2].timestamp) = <<"5", ".", "6", "7", "8", "0", "0", "0">>

\* Witness of C8: the file of the example is read, and two records are kept.
C8_Witness ==
    /\ pc = "read_depth"
    /\ rgb_txt = File(ExampleFile)
    /\ Len(rgb_list) = 2

(***************************************************************************)
(* Properties of a run                                                     *)
(***************************************************************************)
E2ERgb == <<<<"1", "0", "0", "0", ".", "0", " ", "r", "g", "b", "1", ".", "p", "n", "g", "\n">>,
            <<"1", "0", "0", "0", ".", "5", " ", "r", "g", "b", "2", ".", "p", "n", "g", "\n">>>>
E2EDepth == <<<<"9", "9", "9", ".", "9", "9", " ", "d", "1", ".", "p", "n", "g", "\n">>,
              <<"1", "0", "0", "0", ".", "5", "2", " ", "d", "2", ".", "p", "n", "g", "\n">>>>
E2EOutput == <<<<"1", "0", "0", "0", ".", "0", "0", "0", "0", "0", "0", " ", "r", "g", "b", "1", ".", "p", "n", "g", " ", "9", "9", "9", ".", "9", "9", "0", "0", "0", "0", " ", "d", "1", ".", "p", "n", "g", "\n">>,
               <<"1", "0", "0", "0", ".", "5", "0", "0", "0", "0", "0", " ", "r", "g", "b", "2", ".", "p", "n", "g", " ", "1", "0", "0", "0", ".", "5", "2", "0", "0", "0", "0", " ", "d", "2", ".", "p", "n", "g", "\n">>>>

\* C5: with rgb.txt holding (1000.0, "rgb1.png"), (1000.5, "rgb2.png"),
\* depth.txt holding (999.99, "d1.png"), (1000.52, "d2.png") and the tolerance
\* 0.02, the run ends with exactly the two lines
\* "1000.000000 rgb1.png 999.990000 d1.png" and
\* "1000.500000 rgb2.png 1000.520000 d2.png" in associations.txt.
C5_EndToEnd ==
    (/\ pc = "exited"
     /\ rgb_txt = File(E2ERgb)
     /\ depth_txt = File(E2EDepth))
        => /\ associations = <<<<0, 0>>, <<1, 1>>>>
           /\ out_txt = File(E2EOutput)
           /\ exit_status = 0

\* Witness of C5: the run on these two files has ended.
C5_Witness ==
    /\ pc = "exited"
    /\ rgb_txt = File(E2ERgb)
    /\ depth_txt = File(E2EDepth)
    /\ Len(out_txt.lines) = 2

Printed(msg) == \E k \in 1..Len(stdout) : stdout[k] = msg
Called(name) == \E k \in 1..Len(calls) : calls[k] = name
NotFoundPrinted ==
    \/ Printed(MsgNotFound(PathJoin(BASE_DATA_ROOT, "rgb.txt")))
    \/ Printed(MsgNotFound(PathJoin(BASE_DATA_ROOT, "depth.txt")))

\* A list has been parsed and holds no record.
RgbParsed == dir_exists /\ rgb_txt.exists /\ pc \notin {"main", "read_rgb"}
DepthParsed == RgbParsed /\ depth_txt.exists /\ pc # "read_depth"
RgbParsedEmpty == RgbParsed /\ rgb_list = <<>>
DepthParsedEmpty == DepthParsed /\ depth_list = <<>>

\* What the empty-list guard is to bring about.
EmptyListAbort ==
    /\ ~Called("associate")
    /\ ~Called("open")
    /\ out_txt = out_before
    /\ exit_status # 0
    /\ pc = "exited" =>
          /\ retval = "False"
          /\ exit_status = 1
          /\ Printed(MsgEmpty)
          /\ ~NotFoundPrinted

\* C6 as stated: whenever either parsed list has no record, associate is never
\* called, the output file is never opened or written, generate_associations
\* returns False, the exit status is not zero and the diagnostic is not the
\* one of a missing input file.
C6_AsStated == (RgbParsedEmpty \/ DepthParsedEmpty) => EmptyListAbort

\* C6, amended: the same, in the runs where both input files exist.
C6_EmptyListGuard ==
    (/\ rgb_txt.exists /\ depth_txt.exists
     /\ RgbParsedEmpty \/ DepthParsedEmpty)
        => EmptyListAbort

\* Witness of C6: a run has ended in which rgb.txt gave records, depth.txt
\* gave none, and an older associations.txt was there.
C6_Witness ==
    /\ pc = "exited"
    /\ rgb_list # <<>>
    /\ depth_txt.exists /\ depth_txt.lines # <<>> /\ depth_list = <<>>
    /\ out_before = File(StaleOutput)
    /\ Printed(MsgEmpty)

MissingInput == ~dir_exists \/ ~rgb_txt.exists \/ ~depth_txt.exists

\* What a missing input is to bring about, and what a write or a status of
\* zero tells of the inputs.
AbortOnMissing ==
    /\ pc = "exited" => exit_status \in {0, 1}
    /\ MissingInput =>
          /\ ~Called("associate")
          /\ ~Called("open")
          /\ pc \notin {"associate", "open", "write"}
          /\ out_txt = out_before
          /\ exit_status # 0
    /\ (pc \in {"open", "write"} \/ Called("open") \/ exit_status = 0) =>
          /\ dir_exists /\ rgb_txt.exists /\ depth_txt.exists
          /\ rgb_list # <<>> /\ depth_list # <<>>

\* The number of steps a run can still take is at most this.
StepsLeft ==
    CASE pc = "main"        -> 8 + Len(rgb_txt.lines)
      [] pc = "read_rgb"    -> 7 + Len(rgb_txt.lines)
      [] pc = "read_depth"  -> 6 + Len(rgb_list)
      [] pc = "guard"       -> 5 + Len(rgb_list)
      [] pc = "associate"   -> 4 + Len(rgb_list)
      [] pc = "open"        -> 3 + Len(associations)
      [] pc = "write"       -> 2 + Len(associations) - written
      [] pc = "main_return" -> 1
      [] pc = "exited"      -> 0

\* C7: when the data directory, rgb.txt or depth.txt does not exist, the run
\* ends with a status that is not zero, associate is not called and the
\* output file is neither created nor overwritten; only a run with both files
\* there and both lists non-empty reaches the write step or ends with status
\* zero; and every step of a run brings its end nearer.
C7_MissingInputAbort ==
    /\ []AbortOnMissing
    /\ [][StepsLeft' < StepsLeft /\ StepsLeft' >= 0]_vars

\* Witness of C7: rgb.txt gave records, depth.txt is missing, an older
\* associations.txt was there, and the run has ended.
C7_Witness ==
    /\ pc = "exited"
    /\ rgb_list # <<>>
    /\ ~depth_txt.exists
    /\ out_before = File(StaleOutput)
    /\ exit_status = 1

\* C9: after generate_associations has returned True the output file holds
\* one line per association, in the order of the associations, each made of
\* the timestamp and payload of record i of the first list and of record j of
\* the second; the count printed is the number of lines; what the file held
\* before is gone.
C9_OutputWriter ==
    retval = "True" =>
        /\ out_txt.exists
        /\ Len(out_txt.lines) = Len(associations)
        /\ \A k \in 1..Len(associations) :
              LET rgb   == rgb_list[associations[k][1] + 1]
                  depth == depth_list[associations[k][2] + 1]
              IN  out_txt.lines[k] =
                      join(<<" ">>, <<FormatF6(rgb.timestamp), rgb.content,
                                      FormatF6(depth.timestamp), depth.content>>)
                          \o <<"\n">>
        /\ Printed(MsgCreated(Len(out_txt.lines), PathJoin(BASE_DATA_ROOT, OUTPUT_FILENAME)))
        /\ pc = "exited" => exit_status = 0

\* Witness of C9: a run has ended well that found an older associations.txt
\* and wrote fewer lines than rgb.txt has records.
C9_Witness ==
    /\ pc = "exited"
    /\ exit_status = 0
    /\ out_before = File(StaleOutput)
    /\ out_txt.lines # <<>>
    /\ Len(out_txt.lines) < Len(rgb_list)

C12_ValidIndices ==
    Returned =>
        /\ \A k \in 1..Len(associations) :
              /\ 0 <= associations[k][1] /\ associations[k][1] < Len(first_list)
              /\ 0 <= associations[k][2] /\ associations[k][2] < Len(second_list)
              /\ associations[k][2] # -1
        /\ second_list = <<>> => associations = <<>>

\* Witness of C12: associate has returned for a first list with records, an
\* empty second list and an infinite maxDifference.
C12_Witness ==
    /\ Returned
    /\ first_list # <<>>
    /\ second_list = <<>>
    /\ max_difference = Inf
    /\ associations = <<>>

\* The records of F whose indices (of Python, from 0) are in K, in their order.
RECURSIVE Restrict(_, _, _)
Restrict(F, K, i) ==
    IF i >= Len(F) THEN <<>>
    ELSE (IF i \in K THEN <<F[i + 1]>> ELSE <<>>) \o Restrict(F, K, i + 1)

\* The associations of the records in K, each i replaced by its index among
\* the records kept.
RECURSIVE Reindex(_, _)
Reindex(pairs, K) ==
    IF pairs = <<>> THEN <<>>
    ELSE (IF Head(pairs)[1] \in K
          THEN <<<<Cardinality({k \in K : k < Head(pairs)[1]}), Head(pairs)[2]>>>>
          ELSE <<>>)
             \o Reindex(Tail(pairs), K)

SubsequencesAgree ==
    Returned =>
        \A K \in SUBSET FirstIdx :
            associate(Restrict(first_list, K, 0), second_list, max_difference)
                = Reindex(associations, K)

\* C13: whether record i of the first list is matched, and with which j,
\* depends on its timestamp, the second list and maxDifference alone: associate
\* on any sub-sequence of the first list returns exactly the associations of
\* the records kept, re-indexed; and associate changes neither list.
C13_PerRecordIndependence ==
    /\ []SubsequencesAgree
    /\ [][first_list' = first_list /\ second_list' = second_list]_vars

\* Witness of C13: of two records of the first list the first is left
\* unmatched and the second is matched, so that it is re-indexed when it is
\* kept alone.
C13_Witness ==
    /\ Returned
    /\ Len(first_list) = 2
    /\ Len(associations) = 1
    /\ associations[1][1] = 1

====
